---------------------------- MODULE Spec2Model ----------------------------
(***************************************************************************)
(* Model of notebooks/03_evaluate/comparison.ipynb: the notebook that runs *)
(* the als / sar / svd notebooks over a matrix of data sizes and           *)
(* algorithms with papermill, arranges the recorded metrics into one row   *)
(* per run, accumulates the rows in df_results and finally removes the     *)
(* temporary directory.                                                    *)
(*                                                                         *)
(* The notebook's code cells are executed top to bottom in one kernel; an  *)
(* uncaught exception in a cell stops the execution, so the cells after it *)
(* are not executed.  The clean-up cell can be executed again in the same  *)
(* kernel once it has completed.                                           *)
(***************************************************************************)
EXTENDS Integers, Sequences, FiniteSets, TLC

\* ------------------------------------------------------------------ bounds
MaxSizes == 2
MaxAlgos == 2
MaxCleanupRuns == 2
\* The largest number of cells (data sizes x algorithms) of a matrix.
MaxCells == 4

\* The values the configuration cell's lists are drawn from.  "ncf" stands
\* for an identifier the notebook has no entry and no branch for.
SizeIds == {"100k", "1m"}
AlgoIds == {"als", "sar", "svd", "ncf"}
TopKs == {5, 10}

BoundedSeq(S, n) == UNION {[1..m -> S] : m \in 0..n}

\* ------------------------------------------------------------ configuration
\* notebooks = {'als': ..., 'sar': ..., 'svd': ...}
notebooks ==
    [als |-> "../00_quick_start/als_pyspark_movielens.ipynb",
     sar |-> "../00_quick_start/sar_single_node_movielens.ipynb",
     svd |-> "../02_model/surprise_svd_deep_dive.ipynb"]

\* The value a failed dictionary lookup stands for (the lookup raises).
KeyErrorRaised == "<KeyError>"

\* notebooks.get(algorithm, <some notebook>): a lookup that never raises.
NotebookOf_Default(algorithm) ==
    IF algorithm \in DOMAIN notebooks THEN notebooks[algorithm]
    ELSE notebooks["als"]

\* notebooks[algorithm], evaluated as the first argument of execute_notebook.
NotebookOf(algorithm) ==
    IF algorithm \in DOMAIN notebooks THEN notebooks[algorithm]
    ELSE KeyErrorRaised

\* --------------------------------------------------------------- values
\* A metric value is a number or NaN (np.nan).
Num(x) == <<"num", x>>
NaN == <<"nan", 0>>

\* The names under which the executed notebooks record their results.
RankingKeys == <<"map", "ndcg", "precision", "recall">>
RatingKeys == <<"rmse", "mae", "rsquared", "exp_var">>
TimeKeys == <<"train_time", "test_time">>

\* The names are compared as recorded, without lower-casing.
Lower_Identity(name) == name

\* str.lower() on the recorded names the model uses.
Lower(name) ==
    CASE name = "MAP" -> "map"
      [] OTHER -> name

\* A number that identifies a metric, used to build distinct values.
Code(name) ==
    CASE name = "map" -> 1
      [] name = "ndcg" -> 2
      [] name = "precision" -> 3
      [] name = "recall" -> 4
      [] name = "rmse" -> 5
      [] name = "mae" -> 6
      [] name = "rsquared" -> 7
      [] name = "exp_var" -> 8
      [] name = "train_time" -> 9
      [] name = "test_time" -> 10
      [] OTHER -> 0

Without(names, name) == SelectSeq(names, LAMBDA x : x # name)

\* The lists of names an executed notebook may record: every metric, the
\* ranking metrics and times only, one rating metric missing, one ranking
\* metric missing, a name in another case, a name recorded twice.
FullNames == RankingKeys \o RatingKeys \o TimeKeys
RecordedNames ==
    {FullNames, RankingKeys \o TimeKeys}
    \cup {Without(FullNames, r) : r \in {RatingKeys[n] : n \in 1..Len(RatingKeys)}}
    \cup {Without(FullNames, "recall")}
    \cup {<<"MAP">> \o Without(FullNames, "map")}
    \cup {FullNames \o <<"MAP">>}

\* The records of the output notebook written by invocation n that recorded
\* names: one (name, value) record per pm.record call, the value tagged with
\* the invocation and the metric.
Records(n, names) ==
    [p \in 1..Len(names) |->
        [name |-> names[p], value |-> Num(n * 100 + Code(Lower(names[p])))]]

\* The recorded names whose value may be NaN: a notebook can record a metric
\* that came out as NaN (none of them, or rmse).
NaNRecorded == {{}, {"rmse"}}

\* Records(n, names) with NaN recorded under the names in nans.
RecordsWithNaN(n, names, nans) ==
    [p \in 1..Len(names) |->
        IF names[p] \in nans
        THEN [name |-> names[p], value |-> NaN]
        ELSE Records(n, names)[p]]

NoNotebook == [by |-> 0, records |-> <<>>]

VARIABLES
    pc,           \* position in the notebook's execution
    wsExists,     \* whether the directory temp_path exists
    k,            \* top k
    data_sizes,   \* list of data sizes
    algorithms,   \* list of algorithm identifiers
    i, j,         \* positions of the two for loops (1-based)
    invocations,  \* the pm.execute_notebook calls made so far
    artifact,     \* the content of the file output_path
    nb,           \* the notebook object read back by pm.read_notebook
    df_results,   \* the accumulated table
    displayed,    \* the run cell's output (the value of its last expression)
    error,        \* the uncaught exception that stopped the execution
    errorIn,      \* the cell that raised it
    rmtree,       \* the outcome of the last shutil.rmtree call
    cleanups      \* number of executions of the clean-up cell

vars == <<pc, wsExists, k, data_sizes, algorithms, i, j, invocations, artifact,
          nb, df_results, displayed, error, errorIn, rmtree, cleanups>>

\* The run cell has produced no output yet.
NotDisplayed == [shown |-> FALSE, table |-> <<>>]

Init ==
    /\ pc = "setup"
    /\ wsExists = FALSE
    /\ k = 0
    /\ data_sizes = <<>>
    /\ algorithms = <<>>
    /\ i = 1
    /\ j = 1
    /\ invocations = <<>>
    /\ artifact = NoNotebook
    /\ nb = NoNotebook
    /\ df_results = <<>>
    /\ displayed = NotDisplayed
    /\ error = "none"
    /\ errorIn = "none"
    /\ rmtree = "none"
    /\ cleanups = 0

\* temp_path = tempfile.mkdtemp(); output_path = join(temp_path, 'output.ipynb')
MakeTempDir ==
    /\ pc = "setup"
    /\ wsExists' = TRUE
    /\ pc' = "params"
    /\ UNCHANGED <<k, data_sizes, algorithms, i, j, invocations, artifact, nb,
                   df_results, displayed, error, errorIn, rmtree, cleanups>>

\* The first position of the nested for loops over the two lists: with an
\* empty inner list the outer loop runs through without a body execution.
FirstCell(sizes, algos) ==
    IF Len(algos) = 0 THEN <<Len(sizes) + 1, 1>> ELSE <<1, 1>>

\* The global set-up cell: k, data_sizes, algorithms (notebooks is above).
SetUpParameters ==
    /\ pc = "params"
    /\ \E kk \in TopKs, sizes \in BoundedSeq(SizeIds, MaxSizes),
          algos \in BoundedSeq(AlgoIds, MaxAlgos) :
          /\ Len(sizes) * Len(algos) <= MaxCells
          /\ k' = kk
          /\ data_sizes' = sizes
          /\ algorithms' = algos
    /\ pc' = "run"
    /\ UNCHANGED <<wsExists, i, j, invocations, artifact, nb, df_results,
                   displayed, error, errorIn, rmtree, cleanups>>

\* The run cell starts: df_results = pd.DataFrame(), and the two for loops
\* are entered.
BeginRun ==
    /\ pc = "run"
    /\ df_results' = <<>>
    /\ i' = FirstCell(data_sizes, algorithms)[1]
    /\ j' = FirstCell(data_sizes, algorithms)[2]
    /\ pc' = "for"
    /\ UNCHANGED <<wsExists, k, data_sizes, algorithms, invocations, artifact,
                   nb, displayed, error, errorIn, rmtree, cleanups>>

\* ----------------------------------------------------------- the for loops
CurDataSize == data_sizes[i]
CurAlgorithm == algorithms[j]

\* The outer loop has passed its last data size one position too early.
LoopFinished_OffByOne == i >= Len(data_sizes)

\* Both for loops are exhausted.
LoopFinished == i > Len(data_sizes)

\* The position after (ii, jj): the inner loop over algorithms advances, and
\* when it is exhausted the outer loop over data_sizes advances.
NextCell(ii, jj) ==
    IF jj < Len(algorithms) THEN <<ii, jj + 1>> ELSE <<ii + 1, 1>>

\* An uncaught exception e in cell c stops the notebook's execution.
Raise(e, c) ==
    /\ pc' = "error"
    /\ error' = e
    /\ errorIn' = c

\* pm.execute_notebook(notebooks[algorithm], output_path,
\*     parameters=dict(TOP_K=k, MOVIELENS_DATA_SIZE=data_size)) is called: the
\* argument notebooks[algorithm] is evaluated first and may raise KeyError.
ExecuteNotebook ==
    /\ pc = "for"
    /\ ~LoopFinished
    /\ IF NotebookOf(CurAlgorithm) = KeyErrorRaised
       THEN /\ Raise("KeyError", "run")
            /\ UNCHANGED invocations
       ELSE /\ invocations' = Append(invocations,
                [notebook |-> NotebookOf(CurAlgorithm),
                 TOP_K |-> k,
                 MOVIELENS_DATA_SIZE |-> CurDataSize,
                 algorithm |-> CurAlgorithm,
                 cell |-> <<i, j>>])
            /\ pc' = "executing"
            /\ UNCHANGED <<error, errorIn>>
    /\ UNCHANGED <<wsExists, k, data_sizes, algorithms, i, j, artifact, nb,
                   df_results, displayed, rmtree, cleanups>>

\* The executed notebook runs to its end: the output notebook, with the
\* values it recorded, replaces the file output_path.
NotebookCompletes ==
    /\ pc = "executing"
    /\ \E names \in RecordedNames, nans \in NaNRecorded :
          artifact' = [by |-> Len(invocations),
                       records |-> RecordsWithNaN(Len(invocations), names, nans)]
    /\ pc' = "read"
    /\ UNCHANGED <<wsExists, k, data_sizes, algorithms, i, j, invocations, nb,
                   df_results, displayed, error, errorIn, rmtree, cleanups>>

\* The exception of execute_notebook is caught and the loop body goes on.
AfterExecutionError_Swallowed == "read"

\* The exception of execute_notebook is caught and the same cell is tried
\* again.
AfterExecutionError_Retry == "for"

\* The position after execute_notebook has raised: nothing in the run cell
\* catches the exception.
AfterExecutionError == "error"

\* The executed notebook fails: execute_notebook raises.  The file
\* output_path is left as it was or holds the failed run's notebook.
NotebookFails ==
    /\ pc = "executing"
    /\ \E a \in {artifact, [by |-> Len(invocations), records |-> <<>>]} :
          artifact' = a
    /\ pc' = AfterExecutionError
    /\ error' = "PapermillExecutionError"
    /\ errorIn' = "run"
    /\ UNCHANGED <<wsExists, k, data_sizes, algorithms, i, j, invocations, nb,
                   df_results, displayed, rmtree, cleanups>>

\* nb = pm.read_notebook(output_path)
ReadNotebook ==
    /\ pc = "read"
    /\ nb' = artifact
    /\ pc' = "arrange"
    /\ UNCHANGED <<wsExists, k, data_sizes, algorithms, i, j, invocations,
                   artifact, df_results, displayed, error, errorIn, rmtree,
                   cleanups>>

\* ------------------------------------------------------- arranging a result
\* df_eval: nb.dataframe transposed, its columns named by the recorded names
\* in lower case, the single remaining row holding the values.
Arrange(records) ==
    [p \in 1..Len(records) |->
        [name |-> Lower(records[p].name), value |-> records[p].value]]

Columns(df_eval, key) == {p \in 1..Len(df_eval) : df_eval[p].name = key}

\* df_eval[key].item(): KeyError without a column of that name; with several
\* columns of that name the selection is a DataFrame, which has no item().
Item(df_eval, key) ==
    LET cols == Columns(df_eval, key)
    IN  IF cols = {} THEN [err |-> "KeyError", value |-> NaN]
        ELSE IF Cardinality(cols) > 1
             THEN [err |-> "AttributeError", value |-> NaN]
             ELSE [err |-> "none", value |-> df_eval[CHOOSE p \in cols : TRUE].value]

\* if algorithm in ["als", "svd"]: the branch that looks the rating metrics up.
RatingAlgorithms == {"als", "svd"}

\* The algorithms the if / elif chain has a branch for.
Recognized == RatingAlgorithms \cup {"sar"}

\* Only the ranking metrics and the times are looked up, for every algorithm.
LookedUp_NoRating(algorithm) ==
    IF algorithm \in Recognized THEN RankingKeys \o TimeKeys ELSE <<>>

\* The names looked up in df_eval while the row of an algorithm is built, in
\* the order of the dictionary literal.
LookedUp(algorithm) ==
    IF algorithm \in RatingAlgorithms THEN RankingKeys \o RatingKeys \o TimeKeys
    ELSE IF algorithm = "sar" THEN RankingKeys \o TimeKeys
    ELSE <<>>

\* The exception raised while the row is built: that of the first failing
\* lookup, or ValueError for an algorithm with no branch.
RowError(algorithm, df_eval) ==
    LET keys == LookedUp(algorithm)
        bad == {p \in 1..Len(keys) : Item(df_eval, keys[p]).err # "none"}
    IN  IF algorithm \notin Recognized THEN "ValueError"
        ELSE IF bad = {} THEN "none"
        ELSE Item(df_eval, keys[CHOOSE p \in bad : \A q \in bad : p <= q]).err

\* The rating metrics are taken from whatever df_eval holds.
RatingValue_IfPresent(algorithm, df_eval, key) ==
    Item(df_eval, key).value

\* Every rating field is np.nan, for every algorithm.
RatingValue_AlwaysNaN(algorithm, df_eval, key) == NaN

\* The value of a rating field: looked up for als and svd, np.nan for sar.
RatingValue(algorithm, df_eval, key) ==
    IF algorithm \in RatingAlgorithms THEN Item(df_eval, key).value ELSE NaN

\* df_result with "Data": data_sizes[0], the first data size, in every row.
DfResult_FirstDataSize(data_size, algorithm, kk, df_eval) ==
    [Data |-> data_sizes[1],
     Algo |-> algorithm,
     K |-> kk,
     MAP |-> Item(df_eval, "map").value,
     nDCG |-> Item(df_eval, "ndcg").value,
     Precision |-> Item(df_eval, "precision").value,
     Recall |-> Item(df_eval, "recall").value,
     RMSE |-> RatingValue(algorithm, df_eval, "rmse"),
     MAE |-> RatingValue(algorithm, df_eval, "mae"),
     R2 |-> RatingValue(algorithm, df_eval, "rsquared"),
     ExplainedVariance |-> RatingValue(algorithm, df_eval, "exp_var"),
     TrainTime |-> Item(df_eval, "train_time").value,
     TestTime |-> Item(df_eval, "test_time").value]

\* df_result: the one-row frame built in the als/svd or the sar branch.
DfResult(data_size, algorithm, kk, df_eval) ==
    [Data |-> data_size,
     Algo |-> algorithm,
     K |-> kk,
     MAP |-> Item(df_eval, "map").value,
     nDCG |-> Item(df_eval, "ndcg").value,
     Precision |-> Item(df_eval, "precision").value,
     Recall |-> Item(df_eval, "recall").value,
     RMSE |-> RatingValue(algorithm, df_eval, "rmse"),
     MAE |-> RatingValue(algorithm, df_eval, "mae"),
     R2 |-> RatingValue(algorithm, df_eval, "rsquared"),
     ExplainedVariance |-> RatingValue(algorithm, df_eval, "exp_var"),
     TrainTime |-> Item(df_eval, "train_time").value,
     TestTime |-> Item(df_eval, "test_time").value]

\* df_results = df_result: the table is replaced, not extended.
AppendRow_Overwrite(table, row) == <<row>>

\* pd.concat([df_result, df_results]): the new row is put first.
AppendRow_Prepend(table, row) == <<row>> \o table

\* df_results.append(df_result, ignore_index=True)
AppendRow(table, row) == Append(table, row)

\* The rest of the loop body: arrange the records, build the row of the
\* algorithm's branch (or raise), append it, and go to the next position.
ArrangeAndAppend ==
    /\ pc = "arrange"
    /\ LET df_eval == Arrange(nb.records)
           e == RowError(CurAlgorithm, df_eval)
       IN  IF e # "none"
           THEN /\ Raise(e, "run")
                /\ UNCHANGED <<df_results, i, j>>
           ELSE /\ df_results' = AppendRow(df_results,
                                    DfResult(CurDataSize, CurAlgorithm, k, df_eval))
                /\ i' = NextCell(i, j)[1]
                /\ j' = NextCell(i, j)[2]
                /\ pc' = "for"
                /\ UNCHANGED <<error, errorIn>>
    /\ UNCHANGED <<wsExists, k, data_sizes, algorithms, invocations, artifact,
                   nb, displayed, rmtree, cleanups>>

\* The loops are done: the cell's last expression, df_results, is its output.
DisplayResults ==
    /\ pc = "for"
    /\ LoopFinished
    /\ displayed' = [shown |-> TRUE, table |-> df_results]
    /\ pc' = "cleanup"
    /\ UNCHANGED <<wsExists, k, data_sizes, algorithms, i, j, invocations,
                   artifact, nb, df_results, error, errorIn, rmtree, cleanups>>

\* ------------------------------------------------------------- clean up
\* What shutil.rmtree(temp_path) can do: remove the directory, or raise an
\* OSError - ENOENT when the directory is not there, another errno (EACCES)
\* when it is there and cannot be removed.
RmtreeOutcomes(exists) == IF exists THEN {"ok", "EACCES"} ELSE {"ENOENT"}

\* except: pass - every failure of the removal is swallowed.
CleanUpError_BareExcept(outcome) == "none"

\* The exception that leaves the clean-up cell.  The handler evaluates
\* errno.ENOENT, and no cell imports errno: the name lookup raises NameError
\* for every OSError, whatever its errno.
CleanUpError(outcome) == IF outcome = "ok" THEN "none" ELSE "NameError"

\* The clean-up cell, executed after the run cell or once more afterwards.
CleanUp ==
    /\ pc \in {"cleanup", "done"}
    /\ cleanups < MaxCleanupRuns
    /\ cleanups' = cleanups + 1
    /\ \E outcome \in RmtreeOutcomes(wsExists) :
          /\ rmtree' = outcome
          /\ wsExists' = IF outcome = "ok" THEN FALSE ELSE wsExists
          /\ IF CleanUpError(outcome) = "none"
             THEN /\ pc' = "done"
                  /\ UNCHANGED <<error, errorIn>>
             ELSE Raise(CleanUpError(outcome), "cleanup")
    /\ UNCHANGED <<k, data_sizes, algorithms, i, j, invocations, artifact, nb,
                   df_results, displayed>>

Next ==
    \/ MakeTempDir
    \/ SetUpParameters
    \/ BeginRun
    \/ ExecuteNotebook
    \/ NotebookCompletes
    \/ NotebookFails
    \/ ReadNotebook
    \/ ArrangeAndAppend
    \/ DisplayResults
    \/ CleanUp

Spec == Init /\ [][Next]_vars

\* ----------------------------------------------------------------- claims
\* The number of cells of the matrix.
MatrixSize == Len(data_sizes) * Len(algorithms)

\* The c-th entry of the matrix, data size outer and algorithm inner.
MatrixEntry(c) ==
    [data_size |-> data_sizes[((c - 1) \div Len(algorithms)) + 1],
     algorithm |-> algorithms[((c - 1) % Len(algorithms)) + 1]]

\* The number of cells the loops pass before they reach position (ii, jj).
CellsBefore(ii, jj) == (ii - 1) * Len(algorithms) + (jj - 1)

\* The loops stand at a cell of the matrix.
AtCell ==
    /\ pc \in {"for", "executing", "read", "arrange", "error"}
    /\ ~LoopFinished

\* Every cell was processed and the run cell has completed.
RunCellCompleted == pc \in {"cleanup", "done"} \/ errorIn = "cleanup"

\* A cell of the matrix failed.
CellFailed == pc = "error" /\ errorIn = "run"

\* C1: the temporary directory exists from its creation until the last cell
\* has been processed, and it is absent once the run has ended, both when
\* every cell succeeds and when a cell fails.
C1_WorkspaceRemovedOnEveryPath ==
    /\ pc \in {"params", "run", "for", "executing", "read", "arrange"} => wsExists
    /\ pc = "done" => ~wsExists
    /\ CellFailed => ~wsExists

\* C2: no pm.execute_notebook call is made for an algorithm that is not
\* recognized; at such a cell the execution stops with the error of the
\* lookup before the call, with only the earlier cells invoked.
C2_NoInvocationForUnrecognized ==
    /\ \A n \in 1..Len(invocations) : invocations[n].algorithm \in Recognized
    /\ (AtCell /\ CurAlgorithm \notin Recognized) =>
          /\ pc \in {"for", "error"}
          /\ pc = "error" =>
                /\ error = "KeyError"
                /\ Len(invocations) = CellsBefore(i, j)

C2_Witness ==
    /\ AtCell
    /\ CurAlgorithm \notin Recognized
    /\ pc = "error"
    /\ error = "KeyError"
    /\ Len(invocations) >= 1

\* C3: after a run in which every cell succeeds the table holds
\* |data_sizes| x |algorithms| rows.
C3_RowCount ==
    RunCellCompleted => Len(df_results) = Len(data_sizes) * Len(algorithms)

C3_Witness ==
    /\ pc = "done"
    /\ Len(data_sizes) >= 2
    /\ Len(algorithms) >= 2
    /\ Len(df_results) >= 4

\* C4: after a successful run the c-th row has the data size and algorithm
\* of the c-th matrix entry (data size outer, algorithm inner) and K = k.
C4_RowsFollowMatrix ==
    RunCellCompleted =>
        \A c \in 1..MatrixSize :
            /\ c \in DOMAIN df_results
            /\ df_results[c].Data = MatrixEntry(c).data_size
            /\ df_results[c].Algo = MatrixEntry(c).algorithm
            /\ df_results[c].K = k

C4_Witness ==
    /\ pc = "done"
    /\ Len(data_sizes) = 2
    /\ Len(algorithms) = 2
    /\ data_sizes[1] # data_sizes[2]
    /\ algorithms[1] # algorithms[2]
    /\ Len(df_results) = 4

\* C5: every row of sar has NaN in its four rating fields, whatever the
\* executed notebook recorded.
C5_SarRatingFieldsNaN ==
    \A c \in 1..Len(df_results) :
        df_results[c].Algo = "sar" =>
            /\ df_results[c].RMSE = NaN
            /\ df_results[c].MAE = NaN
            /\ df_results[c].R2 = NaN
            /\ df_results[c].ExplainedVariance = NaN

\* A sar row was appended from a notebook that recorded rating metrics.
C5_Witness ==
    /\ pc = "for"
    /\ Len(df_results) >= 1
    /\ df_results[Len(df_results)].Algo = "sar"
    /\ nb.by = Len(invocations)
    /\ \A p \in 1..Len(RatingKeys) :
          Columns(Arrange(nb.records), RatingKeys[p]) # {}

\* The last execute_notebook call has been read back and the rest of the
\* loop body has run on what was read.
LastResultArranged ==
    /\ nb.by > 0
    /\ nb.by = Len(invocations)
    /\ pc # "arrange"

\* C6: for als and svd, when the recorded results lack one of rmse, mae,
\* rsquared, exp_var, building the row raises: the execution stops in the
\* run cell at that cell of the matrix and no row is appended for it.
C6_MissingRatingMetricRaises ==
    (/\ LastResultArranged
     /\ invocations[nb.by].algorithm \in RatingAlgorithms
     /\ \E p \in 1..Len(RatingKeys) :
           Columns(Arrange(nb.records), RatingKeys[p]) = {})
    => /\ CellFailed
       /\ error \in {"KeyError", "AttributeError"}
       /\ <<i, j>> = invocations[nb.by].cell
       /\ Len(df_results) = nb.by - 1

\* The second or a later cell is one of als / svd whose notebook recorded
\* rmse but not mae.
C6_Witness ==
    /\ LastResultArranged
    /\ nb.by >= 2
    /\ invocations[nb.by].algorithm \in RatingAlgorithms
    /\ Columns(Arrange(nb.records), "rmse") # {}
    /\ Columns(Arrange(nb.records), "mae") = {}
    /\ CellFailed
    /\ error = "KeyError"

\* C7: in the clean-up cell a removal that fails because the directory no
\* longer exists is swallowed and the cell completes; a removal that fails
\* for another reason is re-raised as that OSError.
C7_CleanupSwallowsOnlyENOENT ==
    /\ rmtree = "ENOENT" => (pc = "done" /\ error = "none")
    /\ rmtree = "EACCES" => (pc = "error" /\ error = "OSError")

\* C8: when execute_notebook raises for a cell, the execution stops there:
\* the table holds the rows of the earlier cells only, and the failing call
\* is the last call ever made.
C8_ExecutionFailureAborts ==
    error = "PapermillExecutionError" =>
        /\ CellFailed
        /\ Len(invocations) = CellsBefore(i, j) + 1
        /\ invocations[Len(invocations)].cell = <<i, j>>
        /\ Len(df_results) = CellsBefore(i, j)

\* The failure is in the middle of the matrix.
C8_Witness ==
    /\ error = "PapermillExecutionError"
    /\ CellFailed
    /\ CellsBefore(i, j) >= 1
    /\ CellsBefore(i, j) + 1 < MatrixSize

\* C9 as stated: the table is the run cell's output only after every cell
\* has been processed, and when a cell fails the partially built table is
\* discarded.
C9_PartialTableDiscarded ==
    /\ displayed.shown => RunCellCompleted
    /\ CellFailed => (~displayed.shown /\ df_results = <<>>)

\* C9 amended: the table is the run cell's output only after every cell has
\* been processed, and then it is the whole table; when a cell fails nothing
\* is output, and df_results keeps the rows of the cells before the failing
\* one.
C9_PartialTableKept ==
    /\ displayed.shown =>
          /\ RunCellCompleted
          /\ displayed.table = df_results
          /\ Len(displayed.table) = MatrixSize
    /\ CellFailed =>
          /\ ~displayed.shown
          /\ Len(df_results) = CellsBefore(i, j)

C9_Witness ==
    /\ CellFailed
    /\ ~displayed.shown
    /\ Len(df_results) >= 1

\* C10: the notebook's execution ends without an error only with the
\* directory removed and every cell processed, and it ends with an error
\* whenever a cell of the matrix failed.
C10_ExitStatus ==
    /\ pc = "done" =>
          /\ ~wsExists
          /\ rmtree = "ok"
          /\ error = "none"
          /\ Len(df_results) = MatrixSize
    /\ errorIn = "run" => pc = "error"
    /\ error # "none" => pc = "error"

C10_Witness ==
    /\ pc = "done"
    /\ ~wsExists
    /\ Len(df_results) >= 2

\* The matrix has a cell whose algorithm is not recognized.
MatrixHasUnrecognized ==
    \E c \in 1..MatrixSize : MatrixEntry(c).algorithm \notin Recognized

\* The execution stopped at a cell whose algorithm is not recognized.
StoppedAtUnrecognized == CellFailed /\ CurAlgorithm \notin Recognized

\* C11 as stated: a run whose matrix contains an unrecognized algorithm does
\* not complete, and when it stops at that algorithm's cell with the error
\* of the lookup the table has no rows.
C11_UnrecognizedAppendsNothing ==
    /\ RunCellCompleted => ~MatrixHasUnrecognized
    /\ StoppedAtUnrecognized => (error = "KeyError" /\ df_results = <<>>)

\* C11 amended: such a run does not complete; it stops with the error of the
\* lookup at the first cell whose algorithm is not recognized, with no call
\* and no row for that cell, and the table holds the rows appended for the
\* cells before it.
C11_UnrecognizedStopsAtItsCell ==
    /\ RunCellCompleted => ~MatrixHasUnrecognized
    /\ StoppedAtUnrecognized =>
          /\ error = "KeyError"
          /\ \A c \in 1..CellsBefore(i, j) :
                MatrixEntry(c).algorithm \in Recognized
          /\ Len(invocations) = CellsBefore(i, j)
          /\ Len(df_results) = CellsBefore(i, j)

\* The unrecognized algorithm is met after a row was appended.
C11_Witness ==
    /\ StoppedAtUnrecognized
    /\ error = "KeyError"
    /\ Len(df_results) >= 1

\* The field of a row that holds the metric recorded under key.
MetricField(row, key) ==
    CASE key = "map" -> row.MAP
      [] key = "ndcg" -> row.nDCG
      [] key = "precision" -> row.Precision
      [] key = "recall" -> row.Recall
      [] key = "rmse" -> row.RMSE
      [] key = "mae" -> row.MAE
      [] key = "rsquared" -> row.R2
      [] key = "exp_var" -> row.ExplainedVariance

\* The output notebook holds value v under a name that is key up to case.
RecordedUnder(records, key, v) ==
    \E p \in 1..Len(records) :
        Lower(records[p].name) = key /\ records[p].value = v

MetricKeys == RankingKeys \o RatingKeys

\* The last row of the table was built from nb.
LastRowFromNb == LastResultArranged /\ pc # "error" /\ Len(df_results) >= 1

C13_StrictlySequential ==
    /\ \A n \in 1..Len(invocations) :
          CellsBefore(invocations[n].cell[1], invocations[n].cell[2]) = n - 1
    /\ Len(invocations) - Len(df_results) \in {0, 1}
    /\ pc = "executing" =>
          /\ Len(df_results) = Len(invocations) - 1
          /\ nb.by = Len(invocations) - 1
          /\ artifact.by = Len(invocations) - 1
    /\ artifact.by \in {Len(invocations) - 1, Len(invocations)}
    /\ nb.by \in {Len(invocations) - 1, Len(invocations)}

\* The third call is outstanding.
C13_Witness ==
    /\ pc = "executing"
    /\ Len(invocations) >= 3
    /\ Len(df_results) = Len(invocations) - 1

\* The recorded names that are key up to case.
Spellings(key) == IF key = "map" THEN {"map", "MAP"} ELSE {key}

\* The records of the output notebook whose name is key up to case.
ValuesFor(records, key) ==
    {p \in 1..Len(records) : records[p].name \in Spellings(key)}

\* C14: for every algorithm, when the output notebook holds no value or more
\* than one value for one of map, ndcg, precision, recall (names compared
\* without regard to case), building the row raises: the execution stops at
\* that cell and no row is appended for it.
C14_RankingKeyNotUniqueRaises ==
    (/\ LastResultArranged
     /\ \E p \in 1..Len(RankingKeys) :
           Cardinality(ValuesFor(nb.records, RankingKeys[p])) # 1)
    => /\ CellFailed
       /\ error \in {"KeyError", "AttributeError"}
       /\ <<i, j>> = invocations[nb.by].cell
       /\ Len(df_results) = nb.by - 1

\* The second or a later cell is a sar cell whose notebook recorded both map
\* and MAP.
C14_Witness ==
    /\ LastResultArranged
    /\ nb.by >= 2
    /\ invocations[nb.by].algorithm = "sar"
    /\ Cardinality(ValuesFor(nb.records, "map")) = 2
    /\ CellFailed
    /\ error = "AttributeError"
    /\ Len(df_results) = nb.by - 1

\* C15: no cell of the matrix is invoked twice; every call passes TOP_K = k,
\* the data size of its cell and the notebook of its cell's algorithm; and
\* after a run in which every cell succeeds there is exactly one call per
\* cell, in matrix order.
C15_InvokedOncePerCell ==
    /\ \A m, n \in 1..Len(invocations) :
          invocations[m].cell = invocations[n].cell => m = n
    /\ \A n \in 1..Len(invocations) :
          /\ invocations[n].TOP_K = k
          /\ invocations[n].MOVIELENS_DATA_SIZE = data_sizes[invocations[n].cell[1]]
          /\ invocations[n].algorithm = algorithms[invocations[n].cell[2]]
          /\ invocations[n].notebook = notebooks[invocations[n].algorithm]
    /\ RunCellCompleted =>
          /\ Len(invocations) = MatrixSize
          /\ \A c \in 1..MatrixSize :
                /\ invocations[c].MOVIELENS_DATA_SIZE = MatrixEntry(c).data_size
                /\ invocations[c].algorithm = MatrixEntry(c).algorithm

C15_Witness ==
    /\ pc = "done"
    /\ Len(data_sizes) = 2
    /\ Len(algorithms) = 2
    /\ data_sizes[1] # data_sizes[2]
    /\ algorithms[1] # algorithms[2]
    /\ Len(invocations) = 4
    /\ invocations[3].MOVIELENS_DATA_SIZE = data_sizes[2]
    /\ invocations[3].TOP_K = k

\* Table s is the first rows of table t.
IsPrefix(s, t) ==
    /\ Len(s) <= Len(t)
    /\ \A c \in 1..Len(s) : s[c] = t[c]

\* C16: the table is append-only: every step leaves the rows it holds in
\* place and unchanged, and adds at most one row, at the end.
C16_AppendOnly ==
    [][/\ IsPrefix(df_results, df_results')
       /\ Len(df_results') <= Len(df_results) + 1]_vars

\* The same algorithm is listed twice and both of its rows are in the table.
C16_Witness ==
    /\ pc = "for"
    /\ Len(algorithms) = 2
    /\ algorithms[1] = algorithms[2]
    /\ Len(df_results) = 2
    /\ df_results[1].Algo = df_results[2].Algo
    /\ df_results[1].Data = df_results[2].Data
    /\ df_results[1] # df_results[2]

\* The (Data, Algo, K) triple of the c-th row.
Triple(c) == <<df_results[c].Data, df_results[c].Algo, df_results[c].K>>

\* No element occurs twice in the list.
NoRepeat(list) ==
    \A m, n \in 1..Len(list) : list[m] = list[n] => m = n

\* C17 as stated: after a run in which every cell succeeds no two rows carry
\* the same (Data, Algo, K) triple.
C17_TriplesUnique ==
    RunCellCompleted =>
        \A c, d \in 1..Len(df_results) : Triple(c) = Triple(d) => c = d

\* C17 amended: after such a run two rows carry the same triple exactly when
\* their matrix entries are the same pair, so the triples are unique when no
\* data size and no algorithm is listed twice.
C17_TriplesUniqueWithoutRepeats ==
    RunCellCompleted =>
        /\ Len(df_results) = MatrixSize
        /\ \A c, d \in 1..MatrixSize :
              Triple(c) = Triple(d) <=> MatrixEntry(c) = MatrixEntry(d)
        /\ (NoRepeat(data_sizes) /\ NoRepeat(algorithms)) =>
              \A c, d \in 1..MatrixSize : Triple(c) = Triple(d) => c = d

C17_Witness ==
    /\ pc = "done"
    /\ Len(data_sizes) = 2
    /\ Len(algorithms) = 2
    /\ NoRepeat(data_sizes)
    /\ NoRepeat(algorithms)
    /\ Len(df_results) = 4
    /\ \A c, d \in 1..4 : Triple(c) = Triple(d) => c = d

\* C18: what is read back and arranged for a cell was written by that
\* cell's own call: read_notebook is reached only after the call of the cell
\* has written output_path, every row carries the values of its own call,
\* and when a call fails its read-back is never reached, whatever an earlier
\* call left in output_path.
C18_NoStaleResult ==
    /\ pc = "read" => artifact.by = Len(invocations)
    /\ pc = "arrange" => (nb.by = Len(invocations) /\ nb = artifact)
    /\ \A c \in 1..Len(df_results) :
          /\ df_results[c].MAP = Num(c * 100 + Code("map"))
          /\ df_results[c].TestTime = Num(c * 100 + Code("test_time"))
          /\ df_results[c].Data = invocations[c].MOVIELENS_DATA_SIZE
          /\ df_results[c].Algo = invocations[c].algorithm
    /\ error = "PapermillExecutionError" =>
          /\ pc = "error"
          /\ nb.by < Len(invocations)
          /\ Len(df_results) < Len(invocations)

\* A call failed while output_path still held the notebook of the call
\* before it, and nothing was read or appended after the failure.
C18_Witness ==
    /\ error = "PapermillExecutionError"
    /\ pc = "error"
    /\ Len(invocations) >= 2
    /\ artifact.by = Len(invocations) - 1
    /\ artifact.records # <<>>
    /\ nb.by = Len(invocations) - 1
    /\ Len(df_results) = Len(invocations) - 1

====
